---- MODULE Spec2Model ----
(***************************************************************************)
(* EnhancedChromeClient (enhanced_chrome_client.py): the capture buffers, *)
(* the two CDP event handlers run by the driver's event-delivery thread,  *)
(* the start/stop monitoring controller, the body fetcher, the two payload *)
(* extractors and the assess_api_enhanced orchestrator run by one          *)
(* coroutine.                                                              *)
(***************************************************************************)
EXTENDS Integers, Sequences, FiniteSets, TLC

VARIABLES
    network_monitoring,  \* self.network_monitoring
    network_requests,    \* self.network_requests
    network_responses,   \* self.network_responses
    network_lock,        \* holder of self.network_lock between steps, "free" if none
    driver,              \* self.driver is set (truthy)
    cdp_enabled,         \* browser side: the Network domain is enabled
    request_listeners,   \* add_cdp_listener('Network.requestWillBeSent', ...) registrations
    response_listeners,  \* add_cdp_listener('Network.responseReceived', ...) registrations
    pc,                  \* coroutine: current position
    stack,               \* coroutine: return positions of the pending calls
    ret,                 \* coroutine: value returned (or exception raised) by the last call
    frame,               \* coroutine: locals of assess_api_enhanced
    ex,                  \* coroutine: locals of the running extractor
    trace,               \* history: steps of the current top-level call
    calls,               \* history: number of top-level calls made
    delivery,            \* event-delivery thread: its position and the message in hand
    recorded_requests,   \* history: request records appended since the last clear
    recorded_responses    \* history: response records appended since the last clear

vars == <<network_monitoring, network_requests, network_responses, network_lock,
          driver, cdp_enabled, request_listeners, response_listeners,
          pc, stack, ret, frame, ex, trace, calls, delivery,
          recorded_requests, recorded_responses>>

client == <<network_monitoring, network_requests, network_responses, network_lock>>
browser == <<driver, cdp_enabled, request_listeners, response_listeners>>
history == <<recorded_requests, recorded_responses>>

-----------------------------------------------------------------------------
(* Bounds *)

\* self.max_network_entries, scaled down from 1000
max_network_entries == 2
\* top-level calls made by the caller in one behaviour
MaxCalls == 2

-----------------------------------------------------------------------------
(* Python values: every value carries its type tag *)

None == [t |-> "none"]
Str(s) == [t |-> "str", s |-> s]
Dict(d) == [t |-> "dict", d |-> d]
List(l) == [t |-> "list", l |-> l]
Bool(b) == [t |-> "bool", b |-> b]
\* an exception raised instead of a value
Raise == [t |-> "raise"]
Num(n) == [t |-> "int", n |-> n]
\* a float, held as ten times its value
Float(x10) == [t |-> "float", x10 |-> x10]
EmptyDict == Dict([k \in {} |-> None])

IsDict(v) == v.t = "dict"
IsStr(v) == v.t = "str"

\* bool(v)
Truthy(v) ==
    CASE v.t = "none" -> FALSE
      [] v.t = "str" -> v.s # <<>>
      [] v.t = "dict" -> DOMAIN v.d # {}
      [] v.t = "list" -> v.l # <<>>
      [] v.t = "bool" -> v.b
      [] v.t = "int" -> v.n # 0
      [] v.t = "float" -> v.x10 # 0
      [] OTHER -> TRUE

\* v.get(k, default); AttributeError when v has no get
Get(v, k, default) ==
    IF ~IsDict(v) THEN Raise
    ELSE IF k \in DOMAIN v.d THEN v.d[k] ELSE default

\* d[k] = v on a mapping
Put(d, k, v) == [x \in (DOMAIN d) \cup {k} |-> IF x = k THEN v ELSE d[x]]

\* str.lower(), character by character
LowerChar(c) ==
    CASE c = "A" -> "a" [] c = "B" -> "b" [] c = "C" -> "c" [] c = "D" -> "d"
      [] c = "E" -> "e" [] c = "F" -> "f" [] c = "G" -> "g" [] c = "H" -> "h"
      [] c = "I" -> "i" [] c = "J" -> "j" [] c = "K" -> "k" [] c = "L" -> "l"
      [] c = "M" -> "m" [] c = "N" -> "n" [] c = "O" -> "o" [] c = "P" -> "p"
      [] c = "Q" -> "q" [] c = "R" -> "r" [] c = "S" -> "s" [] c = "T" -> "t"
      [] c = "U" -> "u" [] c = "V" -> "v" [] c = "W" -> "w" [] c = "X" -> "x"
      [] c = "Y" -> "y" [] c = "Z" -> "z"
      [] OTHER -> c
Lower(s) == [i \in 1..Len(s) |-> LowerChar(s[i])]

\* sub in s, on character sequences
Contains(sub, s) ==
    \E i \in 0..(Len(s) - Len(sub)) : SubSeq(s, i + 1, i + Len(sub)) = sub

ApiFilter == <<"/", "a", "p", "i", "/">>
GraphqlFilter == <<"g", "r", "a", "p", "h", "q", "l">>

-----------------------------------------------------------------------------
(* CDP event messages delivered by the driver *)

R1 == Str(<<"r", "1">>)
R2 == Str(<<"r", "2">>)
UrlApiGraphql == Str(<<"r", "a", "p", "i", "d", "a", "p", "i", ".", "c", "o", "m", "/", "p", "/", "a", "p", "i", "/", "G", "r", "a", "p", "h", "Q", "L", "/", "p", "r", "i", "c", "i", "n", "g">>)
Junk == Str(<<"x">>)

\* Network.requestWillBeSent messages: a CDP envelope, the direct shape, a
\* non-mapping
RequestMessages ==
    { Dict([params |-> Dict([requestId |-> R1,
                             request |-> Dict([url |-> UrlApiGraphql])])]),
      Dict([requestId |-> R1, url |-> UrlApiGraphql]),
      Junk }

\* Network.responseReceived messages: a CDP envelope with and without a
\* response sub-object, the direct shape, a non-mapping
ResponseMessages ==
    { Dict([params |-> Dict([requestId |-> R1,
                             response |-> Dict([url |-> UrlApiGraphql])])]),
      Dict([params |-> Dict([requestId |-> R2])]),
      Dict([requestId |-> R1, url |-> UrlApiGraphql]),
      Junk }

\* message.get(sub, {}).get(k, default) if message.get(sub) else message.get(k, default)
DirectGet(m, sub, k, default) ==
    LET s == Get(m, sub, None)
    IN  IF s = Raise THEN Raise
        ELSE IF Truthy(s) THEN Get(Get(m, sub, EmptyDict), k, default)
        ELSE Get(m, k, default)

\* a dict literal whose value expressions may raise
DictOrRaise(d) == IF \E k \in DOMAIN d : d[k] = Raise THEN Raise ELSE Dict(d)

\* request_data of _network_request_handler
RequestData(message) ==
    LET cdp == IsDict(message) /\ "params" \in DOMAIN message.d
        src == IF cdp THEN message.d["params"] ELSE message
        F(k, default) ==
            IF cdp THEN Get(Get(src, "request", EmptyDict), k, default)
            ELSE DirectGet(src, "request", k, default)
    IN  DictOrRaise([requestId |-> Get(src, "requestId", None),
                     url |-> F("url", None),
                     method |-> F("method", None),
                     headers |-> F("headers", EmptyDict),
                     timestamp |-> Get(src, "timestamp", None),
                     type |-> Get(src, "type", None),
                     postData |-> F("postData", None)])

\* response_data of _network_response_handler
ResponseData(message) ==
    LET cdp == IsDict(message) /\ "params" \in DOMAIN message.d
        src == IF cdp THEN message.d["params"] ELSE message
        F(k, default) ==
            IF cdp THEN Get(Get(src, "response", EmptyDict), k, default)
            ELSE DirectGet(src, "response", k, default)
    IN  DictOrRaise([requestId |-> Get(src, "requestId", None),
                     url |-> F("url", None),
                     status |-> F("status", None),
                     statusText |-> F("statusText", None),
                     headers |-> F("headers", EmptyDict),
                     mimeType |-> F("mimeType", None),
                     timestamp |-> Get(src, "timestamp", None),
                     type |-> Get(src, "type", None)])

-----------------------------------------------------------------------------
(* Capture buffers and the event-delivery thread *)

\* if len(buffer) >= self.max_network_entries: buffer.pop(0)
Evict(buffer) ==
    IF Len(buffer) >= max_network_entries THEN Tail(buffer) ELSE buffer

\* history of the records appended since the last clear: how many (counted up
\* to max_network_entries + 1) and the latest max_network_entries of them
NoneRecorded == [n |-> 0, last |-> <<>>]
Recorded(h, record) ==
    [n |-> IF h.n > max_network_entries THEN h.n ELSE h.n + 1,
     last |-> IF Len(h.last) < max_network_entries THEN Append(h.last, record)
              ELSE Append(Tail(h.last), record)]

\* the event-delivery thread between two events
Idle == [pc |-> "idle"]

\* _network_request_handler(message): with the lock held, evict, project,
\* append; an exception of the projection leaves the with block and is logged
NetworkRequestHandler(message) ==
    /\ cdp_enabled /\ request_listeners > 0
    /\ network_lock = "free"
    /\ LET evicted == Evict(network_requests)
           request_data == RequestData(message)
       IN  network_requests' = IF request_data = Raise THEN evicted
                               ELSE Append(evicted, request_data)
    /\ UNCHANGED <<network_monitoring, network_responses, network_lock, browser,
                   pc, stack, ret, frame, ex, trace, calls, delivery>>

\* _network_response_handler(message), likewise
NetworkResponseHandler(message) ==
    /\ cdp_enabled /\ response_listeners > 0
    /\ network_lock = "free"
    /\ LET evicted == Evict(network_responses)
           response_data == ResponseData(message)
       IN  network_responses' = IF response_data = Raise THEN evicted
                                ELSE Append(evicted, response_data)
    /\ UNCHANGED <<network_monitoring, network_requests, network_lock, browser,
                   pc, stack, ret, frame, ex, trace, calls, delivery>>

\* the filter of get_network_responses: a record's url is lowercased as found
UrlMatches(resp, url_filter) ==
    LET url == Get(resp, "url", Str(<<>>))
    IN  IF ~IsStr(url) THEN Raise
        ELSE Bool(Contains(Lower(url_filter.s), Lower(url.s)))

RECURSIVE FilterResponses(_, _)
FilterResponses(responses, url_filter) ==
    IF responses = <<>> THEN <<>>
    ELSE IF UrlMatches(Head(responses), url_filter) = Bool(TRUE)
         THEN <<Head(responses)>> \o FilterResponses(Tail(responses), url_filter)
         ELSE FilterResponses(Tail(responses), url_filter)

\* get_network_responses(url_filter), evaluated under the lock
GetNetworkResponses(url_filter) ==
    IF Truthy(url_filter)
    THEN IF \E i \in 1..Len(network_responses) :
                UrlMatches(network_responses[i], url_filter) = Raise
         THEN Raise
         ELSE List(FilterResponses(network_responses, url_filter))
    ELSE List(network_responses)

-----------------------------------------------------------------------------
(* The coroutine: calls, returns and the history of its steps *)

\* a step in the history: a method entered, or a call of the driver or of the
\* static assessment, named with the source line that makes it, and whether
\* it returned (ok) or raised
Step(op, ok) == [op |-> op, ok |-> ok]

\* return v to the caller
Return(v) ==
    /\ pc' = Head(stack)
    /\ stack' = Tail(stack)
    /\ ret' = v

\* await callee(...), to resume at resume
Call(callee, resume) ==
    /\ pc' = callee
    /\ stack' = <<resume>> \o stack
    /\ trace' = Append(trace, Step(callee, TRUE))
    /\ UNCHANGED ret

\* the history up to the call of callee, the callee's own steps forgotten
UpTo(callee) ==
    LET k == CHOOSE i \in 1..Len(trace) :
                 /\ trace[i].op = callee
                 /\ \A j \in (i + 1)..Len(trace) : trace[j].op # callee
    IN  SubSeq(trace, 1, k)

\* the caller invokes a method of the client
Invoke(method) ==
    /\ pc = "idle"
    /\ calls < MaxCalls
    /\ calls' = calls + 1
    /\ pc' = method
    /\ stack' = <<"idle">>
    /\ trace' = <<Step(method, TRUE)>>
    /\ ret' = None
    /\ UNCHANGED <<client, browser, frame, ex, delivery, history>>

Methods ==
    {"start_network_monitoring", "stop_network_monitoring", "get_response_body",
     "clear_network_data", "assess_api_enhanced", "close"}

CallerInvokes == \E method \in Methods : Invoke(method)

-----------------------------------------------------------------------------
(* Monitoring controller *)

\* how far start_network_monitoring gets when the flag is not set: each
\* driver call of the try block either raises or succeeds
StartOutcomes ==
    {"_get_chrome_driver raises", "Network.enable raises",
     "add_cdp_listener raises (requestWillBeSent)",
     "add_cdp_listener raises (responseReceived)", "started"}

\* the driver calls made up to that point
StartSteps(outcome) ==
    LET all == <<Step("_get_chrome_driver@110", TRUE), Step("Network.enable@114", TRUE),
                 Step("add_cdp_listener@119", TRUE),
                 Step("add_cdp_listener@122", TRUE)>>
        n == CASE outcome = "_get_chrome_driver raises" -> 1
               [] outcome = "Network.enable raises" -> 2
               [] outcome = "add_cdp_listener raises (requestWillBeSent)" -> 3
               [] OTHER -> 4
    IN  IF outcome = "started" THEN all
        ELSE SubSeq(all, 1, n - 1) \o <<[all[n] EXCEPT !.ok = FALSE]>>

\* the driver calls that succeeded, by name
Succeeded(steps) == {steps[i].op : i \in {j \in 1..Len(steps) : steps[j].ok}}

\* start_network_monitoring setting the flag as soon as Network.enable has
\* succeeded, before the listeners are registered
StartNetworkMonitoringFlagEarly ==
    /\ pc = "start_network_monitoring"
    /\ IF network_monitoring
       THEN /\ Return(Bool(TRUE))
            /\ UNCHANGED <<network_monitoring, browser, trace>>
       ELSE \E outcome \in StartOutcomes :
              LET done == Succeeded(StartSteps(outcome))
              IN  /\ trace' = trace \o StartSteps(outcome)
                  /\ driver' = (driver \/ "_get_chrome_driver@110" \in done)
                  /\ cdp_enabled' = (cdp_enabled \/ "Network.enable@114" \in done)
                  /\ request_listeners' =
                         IF "add_cdp_listener@119" \in done
                         THEN request_listeners + 1 ELSE request_listeners
                  /\ response_listeners' =
                         IF "add_cdp_listener@122" \in done
                         THEN response_listeners + 1 ELSE response_listeners
                  /\ network_monitoring' = ("Network.enable@114" \in done)
                  /\ Return(Bool(outcome = "started"))
    /\ UNCHANGED <<network_requests, network_responses, network_lock, frame, ex,
                   calls, delivery, history>>

\* start_network_monitoring
StartNetworkMonitoring ==
    /\ pc = "start_network_monitoring"
    /\ IF network_monitoring
       THEN /\ Return(Bool(TRUE))
            /\ UNCHANGED <<network_monitoring, browser, trace>>
       ELSE \E outcome \in StartOutcomes :
              LET done == Succeeded(StartSteps(outcome))
              IN  /\ trace' = trace \o StartSteps(outcome)
                  /\ driver' = (driver \/ "_get_chrome_driver@110" \in done)
                  /\ cdp_enabled' = (cdp_enabled \/ "Network.enable@114" \in done)
                  /\ request_listeners' =
                         IF "add_cdp_listener@119" \in done
                         THEN request_listeners + 1 ELSE request_listeners
                  /\ response_listeners' =
                         IF "add_cdp_listener@122" \in done
                         THEN response_listeners + 1 ELSE response_listeners
                  /\ network_monitoring' = (outcome = "started")
                  /\ Return(Bool(outcome = "started"))
    /\ UNCHANGED <<network_requests, network_responses, network_lock, frame, ex,
                   calls, delivery, history>>

\* stop_network_monitoring without the test of the flag at its head
StopNetworkMonitoringUntested ==
    /\ pc = "stop_network_monitoring"
    /\ IF driver
       THEN \E ok \in BOOLEAN :
              /\ trace' = Append(trace, Step("Network.disable@142", ok))
              /\ IF ok
                 THEN /\ cdp_enabled' = FALSE
                      /\ network_monitoring' = FALSE
                      /\ Return(Bool(TRUE))
                 ELSE /\ Return(Bool(FALSE))
                      /\ UNCHANGED <<network_monitoring, cdp_enabled>>
       ELSE /\ network_monitoring' = FALSE
            /\ Return(Bool(TRUE))
            /\ UNCHANGED <<cdp_enabled, trace>>
    /\ UNCHANGED <<network_requests, network_responses, network_lock, driver,
                   request_listeners, response_listeners, frame, ex,
                   calls, delivery, history>>

\* stop_network_monitoring
StopNetworkMonitoring ==
    /\ pc = "stop_network_monitoring"
    /\ IF ~network_monitoring
       THEN /\ Return(Bool(TRUE))
            /\ UNCHANGED <<network_monitoring, cdp_enabled, trace>>
       ELSE IF driver
       THEN \E ok \in BOOLEAN :
              /\ trace' = Append(trace, Step("Network.disable@142", ok))
              /\ IF ok
                 THEN /\ cdp_enabled' = FALSE
                      /\ network_monitoring' = FALSE
                      /\ Return(Bool(TRUE))
                 ELSE /\ Return(Bool(FALSE))
                      /\ UNCHANGED <<network_monitoring, cdp_enabled>>
       ELSE /\ network_monitoring' = FALSE
            /\ Return(Bool(TRUE))
            /\ UNCHANGED <<cdp_enabled, trace>>
    /\ UNCHANGED <<network_requests, network_responses, network_lock, driver,
                   request_listeners, response_listeners, frame, ex,
                   calls, delivery, history>>

-----------------------------------------------------------------------------
(* Buffer operations of the coroutine *)

\* the body of clear_network_data, under the lock
Cleared ==
    /\ network_lock = "free"
    /\ network_requests' = <<>>
    /\ network_responses' = <<>>

\* clear_network_data called by the caller
ClearNetworkData ==
    /\ pc = "clear_network_data"
    /\ Cleared
    /\ Return(None)
    /\ UNCHANGED <<network_monitoring, network_lock, browser, frame, ex,
                   trace, calls, delivery>>

UrlFilters ==
    {None, Str(<<>>), Str(ApiFilter), Str(GraphqlFilter), Str(<<"A", "P", "I">>),
     Str(<<"i", "m", "g">>)}

\* the caller's get_network_responses call in the history, with the buffer
\* it read
Query(url_filter, result) ==
    [op |-> "get_network_responses", ok |-> result # Raise,
     url_filter |-> url_filter, responses |-> network_responses, result |-> result]

\* get_network_responses(url_filter) called by the caller
CallerQueries ==
    /\ pc = "idle"
    /\ calls < MaxCalls
    /\ network_lock = "free"
    /\ \E url_filter \in UrlFilters :
         /\ ret' = GetNetworkResponses(url_filter)
         /\ trace' = <<Query(url_filter, ret')>>
    /\ calls' = calls + 1
    /\ UNCHANGED <<client, browser, pc, stack, frame, ex, delivery, history>>

-----------------------------------------------------------------------------
(* Response bodies and the pure part of the two extractors *)

\* a non-empty body text, described by what the parsers find in it:
\* description: group 1 of '"description","content":"([^"]*)"', None if no match
\* plans, endpoints: json.loads of the '"plans":\s*(\[.*?\])' / '"endpoints":...'
\*   match: None if no match, Raise for a JSONDecodeError, else the array
\* json: json.loads(body): Raise for a JSONDecodeError, else the value
Body(description, plans, endpoints, json) ==
    [t |-> "body", description |-> description, plans |-> plans,
     endpoints |-> endpoints, json |-> json]

BodyRsc ==
    Body(Str(<<"d", "1">>), List(<<Str(<<"b", "a", "s", "i", "c">>)>>),
         List(<<Str(<<"e", "1">>)>>), Raise)
BodyGraphql ==
    Body(None, None, None,
         Dict([data |-> Dict([api |-> Dict([name |-> Str(<<"n", "2">>),
                                            description |-> Str(<<"d", "2">>),
                                            rating |-> Num(0),
                                            reviewCount |-> Str(<<"1", "2", "0">>)])])]))
BodyGraphqlOther ==
    Body(None, None, None, Dict([data |-> Dict([viewer |-> None])]))

DigitChars == {"0", "1", "2", "3", "4", "5", "6", "7", "8", "9"}
DigitValue(c) ==
    CASE c = "0" -> 0 [] c = "1" -> 1 [] c = "2" -> 2 [] c = "3" -> 3 [] c = "4" -> 4
      [] c = "5" -> 5 [] c = "6" -> 6 [] c = "7" -> 7 [] c = "8" -> 8 [] c = "9" -> 9
IsDigits(s) == s # <<>> /\ \A i \in 1..Len(s) : s[i] \in DigitChars
RECURSIVE DigitsValue(_)
DigitsValue(s) ==
    IF s = <<>> THEN 0
    ELSE 10 * DigitsValue(SubSeq(s, 1, Len(s) - 1)) + DigitValue(s[Len(s)])

\* GraphQL envelopes: data.api null beside a getApi object
BodyNullApi ==
    Body(None, None, None,
         Dict([data |-> Dict([api |-> None,
                              getApi |-> Dict([name |-> Str(<<"n", "3">>)])])]))
\* an object at data.getApi only
BodyGetApi ==
    Body(None, None, None,
         Dict([data |-> Dict([getApi |-> Dict([name |-> Str(<<"n", "4">>)])])]))
\* an object at data.marketplace.api only
BodyMarketplace ==
    Body(None, None, None,
         Dict([data |-> Dict([marketplace |->
                                  Dict([api |-> Dict([name |-> Str(<<"n", "5">>)])])])]))
\* an empty object at data.api
BodyEmptyApi ==
    Body(None, None, None, Dict([data |-> Dict([api |-> EmptyDict])]))
\* pricingTiers and methods null beside plans and operations
BodyNullTiers ==
    Body(None, None, None,
         Dict([data |-> Dict([api |->
             Dict([name |-> Str(<<"n", "6">>),
                   pricingTiers |-> None,
                   plans |-> List(<<Str(<<"b", "a", "s", "i", "c">>)>>),
                   methods |-> None,
                   operations |-> List(<<Str(<<"e", "1">>)>>)])])]))
\* an object at data.apiDetails, with pricingTiers and methods
BodyTiers ==
    Body(None, None, None,
         Dict([data |-> Dict([apiDetails |->
             Dict([name |-> Str(<<"n", "7">>),
                   pricingTiers |-> List(<<Str(<<"p", "r", "o">>)>>),
                   methods |-> List(<<Str(<<"e", "2">>)>>)])])]))
\* the envelope of a failed query: {"errors": [...], "data": null}
BodyNullData ==
    Body(None, None, None,
         Dict([errors |-> List(<<Str(<<"e">>)>>), data |-> None]))
\* a rating that is no number
BodyBadRating ==
    Body(None, None, None,
         Dict([data |-> Dict([api |-> Dict([name |-> Str(<<"n", "8">>),
                                            rating |-> Str(<<"n", "/", "a">>)])])]))

\* the bodies held by the browser for the requests b0 .. b9
GraphqlBodies ==
    <<BodyRsc, BodyGraphql, BodyNullApi, BodyGetApi, BodyMarketplace, BodyEmptyApi,
      BodyNullTiers, BodyTiers, BodyNullData, BodyBadRating>>
BodyId(n) == Str(<<"b", CASE n = 0 -> "0" [] n = 1 -> "1" [] n = 2 -> "2" [] n = 3 -> "3"
                         [] n = 4 -> "4" [] n = 5 -> "5" [] n = 6 -> "6" [] n = 7 -> "7"
                         [] n = 8 -> "8" [] n = 9 -> "9">>)
BodyIds == {BodyId(n) : n \in 0..(Len(GraphqlBodies) - 1)}
BodyOf(request_id) == GraphqlBodies[DigitValue(request_id.s[2]) + 1]

\* what Network.getResponseBody gives for a request: the body the browser
\* holds for it, or for the other requests an exception, an empty body, a
\* body text
BodyOutcomes(request_id) ==
    IF request_id \in BodyIds THEN {BodyOf(request_id)}
    ELSE {Raise, Str(<<>>), BodyRsc, BodyGraphql, BodyGraphqlOther}

\* int(v)
ToInt(v) ==
    CASE v.t = "int" -> v
      [] v.t = "float" -> Num(v.x10 \div 10)
      [] v.t = "bool" -> Num(IF v.b THEN 1 ELSE 0)
      [] v.t = "str" -> IF IsDigits(v.s) THEN Num(DigitsValue(v.s)) ELSE Raise
      [] OTHER -> Raise

\* float(v); a numeric text has digits and at most one decimal after a point
ToFloat(v) ==
    CASE v.t = "int" -> Float(10 * v.n)
      [] v.t = "float" -> v
      [] v.t = "bool" -> Float(IF v.b THEN 10 ELSE 0)
      [] v.t = "str" ->
           IF IsDigits(v.s) THEN Float(10 * DigitsValue(v.s))
           ELSE IF /\ Len(v.s) >= 3
                   /\ v.s[Len(v.s) - 1] = "."
                   /\ IsDigits(SubSeq(v.s, 1, Len(v.s) - 2))
                   /\ v.s[Len(v.s)] \in DigitChars
                THEN Float(10 * DigitsValue(SubSeq(v.s, 1, Len(v.s) - 2))
                           + DigitValue(v.s[Len(v.s)]))
                ELSE Raise
      [] OTHER -> Raise

\* the characters of the keys looked up with "in"
KeyChars(k) ==
    CASE k = "data" -> <<"d", "a", "t", "a">>
      [] k = "api" -> <<"a", "p", "i">>
      [] k = "getApi" -> <<"g", "e", "t", "A", "p", "i">>
      [] k = "apiDetails" -> <<"a", "p", "i", "D", "e", "t", "a", "i", "l", "s">>
      [] k = "marketplace" -> <<"m", "a", "r", "k", "e", "t", "p", "l", "a", "c", "e">>

\* k in v: TRUE, FALSE, or Raise for a TypeError
In(k, v) ==
    CASE v.t = "dict" -> Bool(k \in DOMAIN v.d)
      [] v.t = "str" -> Bool(Contains(KeyChars(k), v.s))
      [] v.t = "list" -> Bool(\E i \in 1..Len(v.l) : v.l[i] = Str(KeyChars(k)))
      [] OTHER -> Raise

\* v[k] for a text key: only a mapping has one
Item(v, k) == IF IsDict(v) /\ k \in DOMAIN v.d THEN v.d[k] ELSE Raise

\* the fields copied from api_info, without the break after them
GraphqlFieldsNoBreak(enhanced_data, api_info) ==
    IF ~IsDict(api_info) THEN [data |-> enhanced_data, next |-> "raise"]
    ELSE
    LET G(k) == Get(api_info, k, None)
        Copy(d, k) == IF Truthy(G(k)) THEN Put(d, k, G(k)) ELSE d
        provider == IF Truthy(G("provider")) THEN G("provider") ELSE G("providerName")
        d1 == Copy(enhanced_data, "name")
        d2 == Copy(d1, "description")
        d3 == IF Truthy(provider) THEN Put(d2, "provider", provider) ELSE d2
        rating == IF G("rating") = None THEN None ELSE ToFloat(G("rating"))
        d4 == IF rating \in {None, Raise} THEN d3 ELSE Put(d3, "rating", rating)
        reviewCount ==
            IF G("reviewCount") = None THEN None ELSE ToInt(G("reviewCount"))
        d5 == IF reviewCount \in {None, Raise} THEN d4
              ELSE Put(d4, "reviewCount", reviewCount)
        d6 == Copy(d5, "popularity")
        d7 == Copy(d6, "serviceLevel")
        d8 == Copy(d7, "documentationUrl")
        d9 == IF "pricing" \in DOMAIN api_info.d /\ Truthy(api_info.d["pricing"])
              THEN Put(d8, "pricing", api_info.d["pricing"])
              ELSE IF "pricingTiers" \in DOMAIN api_info.d
              THEN Put(d8, "pricing", Dict([tiers |-> api_info.d["pricingTiers"]]))
              ELSE IF "plans" \in DOMAIN api_info.d
              THEN Put(d8, "pricing", Dict([tiers |-> api_info.d["plans"]]))
              ELSE d8
        d10 == IF "endpoints" \in DOMAIN api_info.d /\ Truthy(api_info.d["endpoints"])
               THEN Put(d9, "endpoints", api_info.d["endpoints"])
               ELSE IF "methods" \in DOMAIN api_info.d
               THEN Put(d9, "endpoints", api_info.d["methods"])
               ELSE IF "operations" \in DOMAIN api_info.d
               THEN Put(d9, "endpoints", api_info.d["operations"])
               ELSE d9
    IN  IF rating = Raise THEN [data |-> d3, next |-> "raise"]
        ELSE IF reviewCount = Raise THEN [data |-> d4, next |-> "raise"]
        ELSE [data |-> d10, next |-> "continue"]

\* the fields copied from api_info, in statement order; an exception keeps
\* the fields stored before it
GraphqlFields(enhanced_data, api_info) ==
    IF ~IsDict(api_info) THEN [data |-> enhanced_data, next |-> "raise"]
    ELSE
    LET G(k) == Get(api_info, k, None)
        Copy(d, k) == IF Truthy(G(k)) THEN Put(d, k, G(k)) ELSE d
        provider == IF Truthy(G("provider")) THEN G("provider") ELSE G("providerName")
        d1 == Copy(enhanced_data, "name")
        d2 == Copy(d1, "description")
        d3 == IF Truthy(provider) THEN Put(d2, "provider", provider) ELSE d2
        rating == IF G("rating") = None THEN None ELSE ToFloat(G("rating"))
        d4 == IF rating \in {None, Raise} THEN d3 ELSE Put(d3, "rating", rating)
        reviewCount ==
            IF G("reviewCount") = None THEN None ELSE ToInt(G("reviewCount"))
        d5 == IF reviewCount \in {None, Raise} THEN d4
              ELSE Put(d4, "reviewCount", reviewCount)
        d6 == Copy(d5, "popularity")
        d7 == Copy(d6, "serviceLevel")
        d8 == Copy(d7, "documentationUrl")
        d9 == IF "pricing" \in DOMAIN api_info.d /\ Truthy(api_info.d["pricing"])
              THEN Put(d8, "pricing", api_info.d["pricing"])
              ELSE IF "pricingTiers" \in DOMAIN api_info.d
              THEN Put(d8, "pricing", Dict([tiers |-> api_info.d["pricingTiers"]]))
              ELSE IF "plans" \in DOMAIN api_info.d
              THEN Put(d8, "pricing", Dict([tiers |-> api_info.d["plans"]]))
              ELSE d8
        d10 == IF "endpoints" \in DOMAIN api_info.d /\ Truthy(api_info.d["endpoints"])
               THEN Put(d9, "endpoints", api_info.d["endpoints"])
               ELSE IF "methods" \in DOMAIN api_info.d
               THEN Put(d9, "endpoints", api_info.d["methods"])
               ELSE IF "operations" \in DOMAIN api_info.d
               THEN Put(d9, "endpoints", api_info.d["operations"])
               ELSE d9
    IN  IF rating = Raise THEN [data |-> d3, next |-> "raise"]
        ELSE IF reviewCount = Raise THEN [data |-> d4, next |-> "raise"]
        ELSE [data |-> d10, next |-> "break"]

\* api_info of one parsed envelope: None when no path is present, Raise when
\* a lookup raises
ApiInfo(data) ==
    IF In("api", data) = Raise THEN Raise
    ELSE IF In("api", data) = Bool(TRUE) THEN Item(data, "api")
    ELSE IF In("getApi", data) = Bool(TRUE) THEN Item(data, "getApi")
    ELSE IF In("apiDetails", data) = Bool(TRUE) THEN Item(data, "apiDetails")
    ELSE IF In("marketplace", data) = Bool(TRUE)
         THEN IF In("api", Item(data, "marketplace")) = Raise THEN Raise
              ELSE IF In("api", Item(data, "marketplace")) = Bool(TRUE)
                   THEN Item(Item(data, "marketplace"), "api")
                   ELSE None
    ELSE None

\* one non-empty body in _extract_graphql_data: the fields and whether the
\* loop continues, breaks, or is left by an exception other than JSONDecodeError
GraphqlRecord(enhanced_data, body) ==
    LET response_data == body.json
        continue == [data |-> enhanced_data, next |-> "continue"]
        raise == [data |-> enhanced_data, next |-> "raise"]
    IN  IF response_data = Raise THEN continue
        ELSE IF In("data", response_data) = Raise THEN raise
        ELSE IF In("data", response_data) = Bool(FALSE) THEN continue
        ELSE IF Item(response_data, "data") = Raise THEN raise
        ELSE LET api_info == ApiInfo(Item(response_data, "data"))
             IN  IF api_info = Raise THEN raise
                 ELSE IF ~Truthy(api_info) THEN continue
                 ELSE GraphqlFields(enhanced_data, api_info)

\* group 1 of re.search(r'rapidapi\.com/([^/]+)/', url), None if no match
ProviderMatch(url) ==
    LET marker == <<"r", "a", "p", "i", "d", "a", "p", "i", ".", "c", "o", "m", "/">>
        Ends(i) == {j \in (i + Len(marker) + 1)..Len(url) :
                      /\ url[j] = "/"
                      /\ \A k \in (i + Len(marker))..(j - 1) : url[k] # "/"}
        Starts == {i \in 1..(Len(url) - Len(marker)) :
                     /\ SubSeq(url, i, i + Len(marker) - 1) = marker
                     /\ Ends(i) # {}}
    IN  IF Starts = {} THEN None
        ELSE LET i == CHOOSE i \in Starts : \A o \in Starts : i <= o
                 j == CHOOSE j \in Ends(i) : TRUE
             IN  Str(SubSeq(url, i + Len(marker), j - 1))

\* one non-empty body in _extract_rsc_data, for a record with this url
RscRecord(enhanced_data, url, body) ==
    LET d1 == IF body.description # None
              THEN Put(enhanced_data, "description", body.description)
              ELSE enhanced_data
        d2 == IF Contains(<<"r", "a", "p", "i", "d", "a", "p", "i", ".", "c", "o", "m">>, url) /\ ProviderMatch(url) # None
              THEN Put(d1, "provider", ProviderMatch(url))
              ELSE d1
        d3 == IF Contains(<<"p", "r", "i", "c", "i", "n", "g">>, Lower(url)) /\ body.plans \notin {None, Raise}
              THEN Put(d2, "pricing", Dict([tiers |-> body.plans]))
              ELSE d2
        d4 == IF /\ Contains(<<"e", "n", "d", "p", "o", "i", "n", "t">>, Lower(url)) \/ Contains(<<"p", "l", "a", "y", "g", "r", "o", "u", "n", "d">>, Lower(url))
                 /\ body.endpoints \notin {None, Raise}
              THEN Put(d3, "endpoints", body.endpoints)
              ELSE d3
    IN  d4

-----------------------------------------------------------------------------
(* Body fetcher and the extractor loops *)

\* get_response_body without the test of the flag
GetResponseBodyOutcomesUngated(request_id) ==
    IF driver
    THEN {[value |-> IF outcome = Raise THEN None ELSE outcome,
           steps |-> <<Step("Network.getResponseBody@169", outcome # Raise)>>] :
             outcome \in BodyOutcomes(request_id)}
    ELSE {[value |-> None, steps |-> <<>>]}

\* get_response_body without its except clause: the command's exception
\* reaches the caller
GetResponseBodyOutcomesUncaught(request_id) ==
    IF ~network_monitoring THEN {[value |-> None, steps |-> <<>>]}
    ELSE IF driver
    THEN {[value |-> outcome,
           steps |-> <<Step("Network.getResponseBody@169", outcome # Raise)>>] :
             outcome \in BodyOutcomes(request_id)}
    ELSE {[value |-> None, steps |-> <<>>]}

\* get_response_body(request_id): the value returned and the CDP command
\* issued, for each thing the command can do
GetResponseBodyOutcomes(request_id) ==
    IF ~network_monitoring THEN {[value |-> None, steps |-> <<>>]}
    ELSE IF driver
    THEN {[value |-> IF outcome = Raise THEN None ELSE outcome,
           steps |-> <<Step("Network.getResponseBody@169", outcome # Raise)>>] :
             outcome \in BodyOutcomes(request_id)}
    ELSE {[value |-> None, steps |-> <<>>]}

\* get_response_body called by the caller
GetResponseBody ==
    /\ pc = "get_response_body"
    /\ \E request_id \in {R1, R2} :
         \E got \in GetResponseBodyOutcomes(request_id) :
           /\ trace' = trace \o got.steps
           /\ Return(got.value)
    /\ UNCHANGED <<client, browser, frame, ex, calls, delivery, history>>

NoExtractor == [records |-> <<>>, i |-> 0, enhanced_data |-> <<>>]
\* the locals of an extractor called with these records
Extractor(responses) == [records |-> responses, i |-> 1, enhanced_data |-> <<>>]

\* body = await self.get_response_body(request_id), inside an extractor
Fetches(got) == <<Step("get_response_body", TRUE)>> \o got.steps

\* _extract_rsc_data: one turn of the loop, or the return after it
ExtractRscData ==
    /\ pc = "_extract_rsc_data"
    /\ IF ex.i > Len(ex.records)
       THEN /\ Return(Dict(ex.enhanced_data))
            /\ UNCHANGED <<ex, trace>>
       ELSE LET response == ex.records[ex.i]
                request_id == Get(response, "requestId", None)
                url == Get(response, "url", Str(<<>>))
            IN  IF Truthy(request_id) /\ ~IsStr(url)
                THEN /\ Return(Dict(ex.enhanced_data))
                     /\ UNCHANGED <<ex, trace>>
                ELSE IF Truthy(request_id) /\ Contains(ApiFilter, url.s)
                THEN \E got \in GetResponseBodyOutcomes(request_id) :
                       /\ trace' = trace \o Fetches(got)
                       /\ IF got.value = Raise
                          THEN /\ Return(Dict(ex.enhanced_data))
                               /\ UNCHANGED ex
                          ELSE /\ ex' = [ex EXCEPT
                                           !.enhanced_data =
                                               IF Truthy(got.value)
                                               THEN RscRecord(@, url.s, got.value)
                                               ELSE @,
                                           !.i = @ + 1]
                               /\ UNCHANGED <<pc, stack, ret>>
                ELSE /\ ex' = [ex EXCEPT !.i = @ + 1]
                     /\ UNCHANGED <<pc, stack, ret, trace>>
    /\ UNCHANGED <<client, browser, frame, calls, delivery, history>>

\* _extract_graphql_data: one turn of the loop, or the return after it
ExtractGraphqlData ==
    /\ pc = "_extract_graphql_data"
    /\ IF ex.i > Len(ex.records)
       THEN /\ Return(Dict(ex.enhanced_data))
            /\ UNCHANGED <<ex, trace>>
       ELSE IF Truthy(Get(ex.records[ex.i], "requestId", None))
       THEN \E got \in GetResponseBodyOutcomes(Get(ex.records[ex.i], "requestId", None)) :
              LET parsed ==
                      IF got.value = Raise
                      THEN [data |-> ex.enhanced_data, next |-> "raise"]
                      ELSE IF Truthy(got.value)
                      THEN GraphqlRecord(ex.enhanced_data, got.value)
                      ELSE [data |-> ex.enhanced_data, next |-> "continue"]
              IN  /\ trace' = trace \o Fetches(got)
                  /\ ex' = [ex EXCEPT !.enhanced_data = parsed.data,
                                      !.i = @ + 1]
                  /\ IF parsed.next = "continue"
                     THEN UNCHANGED <<pc, stack, ret>>
                     ELSE Return(Dict(parsed.data))
       ELSE /\ ex' = [ex EXCEPT !.i = @ + 1]
            /\ UNCHANGED <<pc, stack, ret, trace>>
    /\ UNCHANGED <<client, browser, frame, calls, delivery, history>>

-----------------------------------------------------------------------------
(* Assessment orchestrator *)

\* the static assessment's result record
StaticResult == Dict([description |-> Str(<<"d", "1">>), provider |-> Str(<<"p", "0">>)])
\* await self.assess_api(api_url): the record, or an exception
StaticOutcomes == {StaticResult, Raise}

NoFrame ==
    [result |-> None, api_responses |-> <<>>, graphql_responses |-> <<>>,
     enhanced_data |-> <<>>, rsc_data |-> <<>>, graphql_data |-> <<>>]

\* a == b on values: numbers compare by value
PyEq(a, b) ==
    LET IsNumber(v) == v.t \in {"int", "float", "bool"}
    IN  IF IsNumber(a) /\ IsNumber(b) THEN ToFloat(a) = ToFloat(b) ELSE a = b

\* enhanced_data.update(found)
Update(enhanced_data, found) ==
    [k \in (DOMAIN enhanced_data) \cup (DOMAIN found) |->
        IF k \in DOMAIN found THEN found[k] ELSE enhanced_data[k]]

\* the merge without the test of the value's truth
MergeAnyValue(result, enhanced_data) ==
    IF enhanced_data = <<>> THEN result
    ELSE IF ~IsDict(result) THEN Raise
    ELSE LET Written(k) == ~PyEq(enhanced_data[k], Get(result, k, None))
             written == {k \in DOMAIN enhanced_data : Written(k)}
         IN  Dict([k \in (DOMAIN result.d) \cup written |->
                     IF k \in written THEN enhanced_data[k] ELSE result.d[k]])

\* for key, value in enhanced_data.items():
\*     if value and value != result.get(key): result[key] = value
Merge(result, enhanced_data) ==
    IF enhanced_data = <<>> THEN result
    ELSE IF ~IsDict(result) THEN Raise
    ELSE LET Written(k) ==
                 /\ Truthy(enhanced_data[k])
                 /\ ~PyEq(enhanced_data[k], Get(result, k, None))
             written == {k \in DOMAIN enhanced_data : Written(k)}
         IN  Dict([k \in (DOMAIN result.d) \cup written |->
                     IF k \in written THEN enhanced_data[k] ELSE result.d[k]])

\* self.clear_network_data(), then await self.start_network_monitoring()
AssessClear ==
    /\ pc = "assess_api_enhanced"
    /\ Cleared
    /\ pc' = "start_network_monitoring"
    /\ stack' = <<"assess_started">> \o stack
    /\ trace' = trace \o <<Step("clear_network_data", TRUE),
                           Step("start_network_monitoring", TRUE)>>
    /\ UNCHANGED <<network_monitoring, network_lock, browser, ret,
                   frame, ex, calls, delivery, history>>

\* leave assess_api_enhanced with a value or an exception
AssessLeaves(v) ==
    /\ Return(v)
    /\ frame' = NoFrame
    /\ ex' = NoExtractor

\* if not await self.start_network_monitoring():
\*     return await self.assess_api(api_url)
AssessStaticOnly ==
    /\ pc = "assess_started"
    /\ ret # Bool(TRUE)
    /\ \E outcome \in StaticOutcomes :
         /\ trace' = Append(trace, Step("assess_api@195", outcome # Raise))
         /\ IF outcome = Raise
            THEN /\ pc' = "assess_except"
                 /\ UNCHANGED <<stack, ret, frame, ex>>
            ELSE AssessLeaves(outcome)
    /\ UNCHANGED <<client, browser, calls, delivery, history>>

\* the navigation entered whatever start_network_monitoring returned
AssessNavigateUnchecked ==
    /\ pc = "assess_started"
    /\ \E outcome \in {"no driver", "get raises", "ok"} :
         /\ trace' = trace \o
                (IF outcome = "no driver" THEN <<Step("_get_chrome_driver@201", FALSE)>>
                 ELSE <<Step("_get_chrome_driver@201", TRUE),
                        Step("driver.get@202", outcome = "ok")>>)
         /\ driver' = (driver \/ outcome # "no driver")
         /\ pc' = IF outcome = "ok" THEN "assess_script" ELSE "assess_except"
    /\ UNCHANGED <<client, cdp_enabled, request_listeners, response_listeners,
                   stack, ret, frame, ex, calls, delivery, history>>

\* driver = self._get_chrome_driver(); driver.get(api_url)
AssessNavigate ==
    /\ pc = "assess_started"
    /\ ret = Bool(TRUE)
    /\ \E outcome \in {"no driver", "get raises", "ok"} :
         /\ trace' = trace \o
                (IF outcome = "no driver" THEN <<Step("_get_chrome_driver@201", FALSE)>>
                 ELSE <<Step("_get_chrome_driver@201", TRUE),
                        Step("driver.get@202", outcome = "ok")>>)
         /\ driver' = (driver \/ outcome # "no driver")
         /\ pc' = IF outcome = "ok" THEN "assess_script" ELSE "assess_except"
    /\ UNCHANGED <<client, cdp_enabled, request_listeners, response_listeners,
                   stack, ret, frame, ex, calls, delivery, history>>

\* driver.execute_script(interaction_script), after the first sleep
AssessScript ==
    /\ pc = "assess_script"
    /\ \E ok \in BOOLEAN :
         /\ trace' = Append(trace, Step("execute_script@237", ok))
         /\ pc' = IF ok THEN "assess_static" ELSE "assess_except"
    /\ UNCHANGED <<client, browser, stack, ret, frame, ex, calls, delivery, history>>

\* result = await self.assess_api(api_url), after the second sleep
AssessStatic ==
    /\ pc = "assess_static"
    /\ \E outcome \in StaticOutcomes :
         /\ trace' = Append(trace, Step("assess_api@243", outcome # Raise))
         /\ IF outcome = Raise
            THEN /\ pc' = "assess_except"
                 /\ UNCHANGED frame
            ELSE /\ pc' = "assess_query_api"
                 /\ frame' = [frame EXCEPT !.result = outcome]
    /\ UNCHANGED <<client, browser, stack, ret, ex, calls, delivery, history>>

\* api_responses = self.get_network_responses(url_filter="/api/")
AssessQueryApi ==
    /\ pc = "assess_query_api"
    /\ network_lock = "free"
    /\ LET found == GetNetworkResponses(Str(ApiFilter))
       IN  /\ trace' = Append(trace, Step("get_network_responses@246", found # Raise))
           /\ IF found = Raise
              THEN /\ pc' = "assess_except"
                   /\ UNCHANGED frame
              ELSE /\ pc' = "assess_query_graphql"
                   /\ frame' = [frame EXCEPT !.api_responses = found.l]
    /\ UNCHANGED <<client, browser, stack, ret, ex, calls, delivery, history>>

\* graphql_responses = self.get_network_responses(url_filter="graphql")
AssessQueryGraphql ==
    /\ pc = "assess_query_graphql"
    /\ network_lock = "free"
    /\ LET found == GetNetworkResponses(Str(GraphqlFilter))
       IN  /\ trace' = Append(trace, Step("get_network_responses@247", found # Raise))
           /\ IF found = Raise
              THEN /\ pc' = "assess_except"
                   /\ UNCHANGED frame
              ELSE /\ pc' = "assess_extract_rsc"
                   /\ frame' = [frame EXCEPT !.graphql_responses = found.l]
    /\ UNCHANGED <<client, browser, stack, ret, ex, calls, delivery, history>>

\* if api_responses: rsc_data = await self._extract_rsc_data(api_responses)
AssessExtractRsc ==
    /\ pc = "assess_extract_rsc"
    /\ IF frame.api_responses # <<>>
       THEN /\ Call("_extract_rsc_data", "assess_extracted_rsc")
            /\ ex' = Extractor(frame.api_responses)
       ELSE /\ pc' = "assess_extract_graphql"
            /\ UNCHANGED <<stack, ret, trace, ex>>
    /\ UNCHANGED <<client, browser, frame, calls, delivery, history>>

\* if rsc_data: enhanced_data.update(rsc_data); the extractor is over, its
\* locals are gone and its steps leave the history
AssessExtractedRsc ==
    /\ pc = "assess_extracted_rsc"
    /\ IF ret = Raise
       THEN /\ pc' = "assess_except"
            /\ UNCHANGED frame
       ELSE /\ pc' = "assess_extract_graphql"
            /\ frame' = [frame EXCEPT !.enhanced_data = Update(@, ret.d),
                                      !.rsc_data = ret.d]
    /\ ex' = NoExtractor
    /\ trace' = UpTo("_extract_rsc_data")
    /\ UNCHANGED <<client, browser, stack, ret, calls, delivery, history>>

\* if graphql_responses: graphql_data = await self._extract_graphql_data(...)
AssessExtractGraphql ==
    /\ pc = "assess_extract_graphql"
    /\ IF frame.graphql_responses # <<>>
       THEN /\ Call("_extract_graphql_data", "assess_extracted_graphql")
            /\ ex' = Extractor(frame.graphql_responses)
       ELSE /\ pc' = "assess_merge"
            /\ UNCHANGED <<stack, ret, trace, ex>>
    /\ UNCHANGED <<client, browser, frame, calls, delivery, history>>

\* if graphql_data: enhanced_data.update(graphql_data); the extractor is over,
\* its locals are gone and its steps leave the history
AssessExtractedGraphql ==
    /\ pc = "assess_extracted_graphql"
    /\ IF ret = Raise
       THEN /\ pc' = "assess_except"
            /\ UNCHANGED frame
       ELSE /\ pc' = "assess_merge"
            /\ frame' = [frame EXCEPT !.enhanced_data = Update(@, ret.d),
                                      !.graphql_data = ret.d]
    /\ ex' = NoExtractor
    /\ trace' = UpTo("_extract_graphql_data")
    /\ UNCHANGED <<client, browser, stack, ret, calls, delivery, history>>

\* the merge loop, then await self.stop_network_monitoring()
AssessMerge ==
    /\ pc = "assess_merge"
    /\ LET merged == Merge(frame.result, frame.enhanced_data)
       IN  IF merged = Raise
           THEN /\ pc' = "assess_except"
                /\ UNCHANGED <<stack, ret, frame, trace>>
           ELSE /\ frame' = [frame EXCEPT !.result = merged]
                /\ Call("stop_network_monitoring", "assess_return")
    /\ UNCHANGED <<client, browser, ex, calls, delivery, history>>

\* return result
AssessReturn ==
    /\ pc = "assess_return"
    /\ AssessLeaves(frame.result)
    /\ UNCHANGED <<client, browser, trace, calls, delivery, history>>

\* the except clause without its call of stop_network_monitoring
AssessExceptNoStop ==
    /\ pc = "assess_except"
    /\ pc' = "assess_fallback"
    /\ trace' = Append(trace, Step("except@282", TRUE))
    /\ UNCHANGED <<client, browser, stack, ret, frame, ex, calls, delivery, history>>

\* except Exception: await self.stop_network_monitoring()
AssessExcept ==
    /\ pc = "assess_except"
    /\ pc' = "stop_network_monitoring"
    /\ stack' = <<"assess_fallback">> \o stack
    /\ trace' = trace \o <<Step("except@282", TRUE), Step("stop_network_monitoring", TRUE)>>
    /\ UNCHANGED <<client, browser, ret, frame, ex, calls, delivery, history>>

\* return await self.assess_api(api_url), in the except clause
AssessFallback ==
    /\ pc = "assess_fallback"
    /\ \E outcome \in StaticOutcomes :
         /\ trace' = Append(trace, Step("assess_api@287", outcome # Raise))
         /\ AssessLeaves(outcome)
    /\ UNCHANGED <<client, browser, calls, delivery, history>>

-----------------------------------------------------------------------------
(* close *)

\* if self.network_monitoring: await self.stop_network_monitoring()
CloseStop ==
    /\ pc = "close"
    /\ IF network_monitoring
       THEN Call("stop_network_monitoring", "close_super")
       ELSE /\ pc' = "close_super"
            /\ UNCHANGED <<stack, ret, trace>>
    /\ UNCHANGED <<client, browser, frame, ex, calls, delivery, history>>

\* await super().close(): the browser is gone
CloseSuper ==
    /\ pc = "close_super"
    /\ driver' = FALSE
    /\ cdp_enabled' = FALSE
    /\ request_listeners' = 0
    /\ response_listeners' = 0
    /\ trace' = Append(trace, Step("super().close", TRUE))
    /\ Return(None)
    /\ UNCHANGED <<client, frame, ex, calls, delivery, history>>

-----------------------------------------------------------------------------
(* The system *)

Init ==
    /\ network_monitoring = FALSE
    /\ network_requests = <<>>
    /\ network_responses = <<>>
    /\ network_lock = "free"
    /\ driver = FALSE
    /\ cdp_enabled = FALSE
    /\ request_listeners = 0
    /\ response_listeners = 0
    /\ pc = "idle"
    /\ stack = <<>>
    /\ ret = None
    /\ frame = NoFrame
    /\ ex = NoExtractor
    /\ trace = <<>>
    /\ calls = 0
    /\ delivery = Idle
    /\ recorded_requests = NoneRecorded
    /\ recorded_responses = NoneRecorded

\* the driver delivers a Network.responseReceived event. The request events
\* and the caller's own get_network_responses calls are left to BufferSpec:
\* network_requests is read by no method, and here the buffer is queried by
\* assess_api_enhanced
ResponseEvent ==
    /\ \E message \in ResponseMessages : NetworkResponseHandler(message)
    /\ UNCHANGED history
\* the caller's clear_network_data
CallerClears ==
    /\ ClearNetworkData
    /\ UNCHANGED history

Next ==
    \/ ResponseEvent
    \/ CallerInvokes
    \/ CallerClears
    \/ StartNetworkMonitoring
    \/ StopNetworkMonitoring
    \/ GetResponseBody
    \/ ExtractRscData
    \/ ExtractGraphqlData
    \/ AssessClear
    \/ AssessStaticOnly
    \/ AssessNavigate
    \/ AssessScript
    \/ AssessStatic
    \/ AssessQueryApi
    \/ AssessQueryGraphql
    \/ AssessExtractRsc
    \/ AssessExtractedRsc
    \/ AssessExtractGraphql
    \/ AssessExtractedGraphql
    \/ AssessMerge
    \/ AssessReturn
    \/ AssessExcept
    \/ AssessFallback
    \/ CloseStop
    \/ CloseSuper

Spec == Init /\ [][Next]_vars

-----------------------------------------------------------------------------
(* The capture buffers alone: the caller starts and stops monitoring, clears
   and queries, and the records appended are remembered *)

BufferMethods ==
    {"start_network_monitoring", "stop_network_monitoring", "clear_network_data"}

BufferCallerInvokes == \E method \in BufferMethods : Invoke(method)

RecordedRequestEvent ==
    \E message \in RequestMessages :
      /\ NetworkRequestHandler(message)
      /\ recorded_requests' =
             IF RequestData(message) = Raise THEN recorded_requests
             ELSE Recorded(recorded_requests, RequestData(message))
      /\ UNCHANGED recorded_responses

RecordedResponseEvent ==
    \E message \in ResponseMessages :
      /\ NetworkResponseHandler(message)
      /\ recorded_responses' =
             IF ResponseData(message) = Raise THEN recorded_responses
             ELSE Recorded(recorded_responses, ResponseData(message))
      /\ UNCHANGED recorded_requests

RecordedClear ==
    /\ ClearNetworkData
    /\ recorded_requests' = NoneRecorded
    /\ recorded_responses' = NoneRecorded

BufferNext ==
    \/ RecordedRequestEvent
    \/ RecordedResponseEvent
    \/ RecordedClear
    \/ BufferCallerInvokes
    \/ CallerQueries
    \/ StartNetworkMonitoring
    \/ StopNetworkMonitoring

BufferSpec == Init /\ [][BufferNext]_vars

-----------------------------------------------------------------------------
(* Properties *)

Last(s) == s[Len(s)]
\* the names of the steps of a history
Ops(t) == {t[i].op : i \in 1..Len(t)}
\* one of these steps raised
Failed(t, ops) == \E i \in 1..Len(t) : t[i].op \in ops /\ ~t[i].ok
\* the caller's call of this method has come back, with ret or with an exception
Returned(method) == pc = "idle" /\ trace # <<>> /\ trace[1].op = method

\* C1: neither buffer ever holds more than max_network_entries records, and
\* once more than max_network_entries records have been inserted since the
\* last clear, a buffer holds exactly the max_network_entries most recently
\* inserted records, in insertion order
C1_BoundedMostRecent ==
    /\ Len(network_requests) <= max_network_entries
    /\ Len(network_responses) <= max_network_entries
    /\ recorded_requests.n > max_network_entries
           => network_requests = recorded_requests.last
    /\ recorded_responses.n > max_network_entries
           => network_responses = recorded_responses.last

\* C2: when stop_network_monitoring comes back, whatever it returns and
\* whether or not Network.disable worked, the monitoring flag is not set
C2_StopLeavesStopped ==
    (\/ Returned("stop_network_monitoring")
     \/ pc \in {"assess_return", "assess_fallback"}
     \/ pc = "close_super" /\ Last(trace).op # "close")
        => ~network_monitoring

\* C3: get_network_responses with a non-empty filter returns, without raising,
\* the captured records whose url contains the filter regardless of case, in
\* capture order; a record with no url or a null url counts as having the
\* empty url and is left out
C3_FilteredQuery ==
    \A i \in 1..Len(trace) :
        (trace[i].op = "get_network_responses" /\ Truthy(trace[i].url_filter)) =>
            LET q == trace[i]
                Has(resp) ==
                    LET url == Get(resp, "url", Str(<<>>))
                    IN  Contains(Lower(q.url_filter.s),
                                 IF IsStr(url) THEN Lower(url.s) ELSE <<>>)
            IN  /\ q.result # Raise
                /\ q.result =
                       List(SelectSeq(q.responses, Has))

\* the coroutine leaves a call that has nothing to do: start_network_monitoring
\* with the flag set, or stop_network_monitoring with the flag not set
NoOpCall ==
    /\ pc' # pc
    /\ \/ pc = "start_network_monitoring" /\ network_monitoring
       \/ pc = "stop_network_monitoring" /\ ~network_monitoring

\* C4: start_network_monitoring called while monitoring, and
\* stop_network_monitoring called while stopped, return True to their caller
\* and change nothing: the flag and both buffers stay as they are, no driver
\* command is issued (the history gains no step), no listener is registered
C4_NoOpCalls ==
    [][NoOpCall =>
          /\ ret' = Bool(TRUE)
          /\ pc' = Head(stack)
          /\ UNCHANGED <<network_monitoring, network_requests, network_responses,
                         driver, cdp_enabled, request_listeners,
                         response_listeners, trace>>]_vars

\* start_network_monitoring was called while monitoring and has returned
C4_Witness ==
    /\ Returned("start_network_monitoring")
    /\ trace = <<Step("start_network_monitoring", TRUE)>>
    /\ network_monitoring
    /\ response_listeners = 1
    /\ ret = Bool(TRUE)

\* the driver calls of start_network_monitoring's try block
StartOps ==
    {"_get_chrome_driver@110", "Network.enable@114", "add_cdp_listener@119",
     "add_cdp_listener@122"}

\* start_network_monitoring has just come back, to the caller or to
\* assess_api_enhanced
StartReturned ==
    Returned("start_network_monitoring") \/ pc = "assess_started"

\* C5: start_network_monitoring never raises; called with the flag not set, if
\* getting the driver, Network.enable or one of the two registrations fails it
\* returns False and the flag is not set afterwards; the flag is set only when
\* Network.enable and both registrations have succeeded
C5_StartFailure ==
    StartReturned =>
        LET succeeded == {trace[i].op : i \in {j \in 1..Len(trace) : trace[j].ok}}
        IN  /\ ret \in {Bool(TRUE), Bool(FALSE)}
            /\ Failed(trace, StartOps) => ret = Bool(FALSE) /\ ~network_monitoring
            /\ ret = Bool(TRUE) => network_monitoring
            /\ (Ops(trace) \cap StartOps # {} /\ network_monitoring) =>
                   {"Network.enable@114", "add_cdp_listener@119",
                    "add_cdp_listener@122"} \subseteq succeeded

\* the second registration failed, after Network.enable and the first one
C5_Witness ==
    /\ Returned("start_network_monitoring")
    /\ Last(trace) = Step("add_cdp_listener@122", FALSE)
    /\ cdp_enabled
    /\ request_listeners = 1
    /\ ret = Bool(FALSE)
    /\ ~network_monitoring

\* what assess_api_enhanced does after a successful start, before the merge
CaptureOps ==
    {"_get_chrome_driver@201", "driver.get@202", "execute_script@237",
     "assess_api@243", "get_network_responses@246",
     "get_network_responses@247", "_extract_rsc_data",
     "_extract_graphql_data", "get_response_body", "Network.getResponseBody@169"}

\* the outcome of the static assessment called last: its record or its exception
LastStaticOutcome ==
    IF Last(trace).op \in {"assess_api@195", "assess_api@287"} /\ Last(trace).ok
    THEN StaticResult
    ELSE Raise

\* C6: when start_network_monitoring fails inside assess_api_enhanced, the call
\* does not navigate, run the script, query the buffer or extract; what it hands
\* to the caller is exactly what the static assessment gives, nothing added; and
\* the flag is not set when it comes back
C6_StartFailsStaticOnly ==
    (Returned("assess_api_enhanced") /\ Failed(trace, StartOps)) =>
        /\ Ops(trace) \cap CaptureOps = {}
        /\ Last(trace).op \in {"assess_api@195", "assess_api@287"}
        /\ ret = LastStaticOutcome
        /\ ~network_monitoring

\* Network.enable failed, and the static assessment of line 195 was returned
C6_Witness ==
    /\ Returned("assess_api_enhanced")
    /\ Step("Network.enable@114", FALSE) \in {trace[i] : i \in 1..Len(trace)}
    /\ Last(trace) = Step("assess_api@195", TRUE)
    /\ ret = StaticResult

\* the steps after a successful start that can raise
RaisingOps ==
    {"_get_chrome_driver@201", "driver.get@202", "execute_script@237",
     "assess_api@243", "get_network_responses@246",
     "get_network_responses@247"}

\* C7: when a step of assess_api_enhanced after the start raises, the call
\* enters the except clause, calls stop_network_monitoring, and then hands to
\* the caller what the static assessment of the except clause gives, with no
\* enhanced field applied
C7_ExceptFallsBack ==
    (Returned("assess_api_enhanced") /\ Failed(trace, RaisingOps)) =>
        \E i, j, k \in 1..Len(trace) :
            /\ i < j /\ j < k /\ k < Len(trace)
            /\ trace[i].op \in RaisingOps /\ ~trace[i].ok
            /\ trace[j] = Step("except@282", TRUE)
            /\ trace[k] = Step("stop_network_monitoring", TRUE)
            /\ Last(trace).op = "assess_api@287"
            /\ ret = LastStaticOutcome

\* the buffer query raised after the static assessment of step 7 had given its
\* record, and the caller got the static record
C7_Witness ==
    /\ Returned("assess_api_enhanced")
    /\ Failed(trace, {"get_network_responses@246"})
    /\ Step("assess_api@243", TRUE) \in {trace[i] : i \in 1..Len(trace)}
    /\ ret = StaticResult

\* C8: assess_api_enhanced never fails outward: whatever fails inside it, the
\* caller receives a result record and no exception
C8_NeverFailsOutward ==
    Returned("assess_api_enhanced") => IsDict(ret)

\* C9: Network.getResponseBody is issued only while the flag is set (a step
\* that issues it leaves the flag as it is, and the flag stays until the
\* history grows again), and get_response_body called with the flag not set
\* returns None with no command issued
C9_BodyGated ==
    /\ (trace # <<>> /\ Last(trace).op = "Network.getResponseBody@169")
           => network_monitoring
    /\ (Returned("get_response_body") /\ ~network_monitoring)
           => /\ ret = None
              /\ trace = <<Step("get_response_body", TRUE)>>

\* get_response_body was called with a driver at hand but the flag not set
C9_Witness ==
    /\ Returned("get_response_body")
    /\ trace = <<Step("get_response_body", TRUE)>>
    /\ ~network_monitoring
    /\ driver
    /\ cdp_enabled
    /\ ret = None

\* a turn of an extractor's loop in which Network.getResponseBody raised
FetchRaised ==
    /\ pc \in {"_extract_rsc_data", "_extract_graphql_data"}
    /\ trace' # trace
    /\ Last(trace') = Step("Network.getResponseBody@169", FALSE)

\* C10: in either extractor, when Network.getResponseBody raises for a record
\* the exception does not leave the loop, the fields found so far are
\* untouched, and the loop goes on with the next record: the turn leaves the
\* extractor where skipping the record would have left it
C10_FetchFailureSkipped ==
    [][FetchRaised =>
          /\ pc' = pc
          /\ stack' = stack
          /\ ex' = [ex EXCEPT !.i = @ + 1]]_vars

\* the RSC extractor met a record whose body could not be fetched, and then
\* took fields from the next record
C10_Witness ==
    /\ pc = "_extract_rsc_data"
    /\ ex.i = 3
    /\ Failed(trace, {"Network.getResponseBody@169"})
    /\ Last(trace) = Step("Network.getResponseBody@169", TRUE)
    /\ ex.enhanced_data # <<>>

\* C11: the merge of assess_api_enhanced: a field found by an extractor
\* replaces the baseline's field exactly when its value is truthy and differs
\* from the baseline's; for a field found by both extractors the value is the
\* GraphQL extractor's; a baseline field found by neither is as it was, and
\* no other field appears
C11_Merge ==
    pc = "assess_return" =>
        LET rsc == frame.rsc_data
            graphql == frame.graphql_data
            baseline == StaticResult.d
            found == (DOMAIN rsc) \cup (DOMAIN graphql)
            New(k) == IF k \in DOMAIN graphql THEN graphql[k] ELSE rsc[k]
            Overwritten(k) ==
                /\ k \in found
                /\ Truthy(New(k))
                /\ (k \in DOMAIN baseline => New(k) # baseline[k])
        IN  /\ IsDict(frame.result)
            /\ DOMAIN frame.result.d =
                   (DOMAIN baseline) \cup {k \in found : Overwritten(k)}
            /\ \A k \in DOMAIN frame.result.d :
                   frame.result.d[k] = IF Overwritten(k) THEN New(k) ELSE baseline[k]

\* both extractors found a description, the GraphQL one replaced the
\* baseline's, and the rating of 0.0 found by the GraphQL extractor was not
\* stored
C11_Witness ==
    /\ pc = "assess_return"
    /\ "description" \in DOMAIN frame.rsc_data
    /\ "description" \in DOMAIN frame.graphql_data
    /\ frame.rsc_data["description"] # frame.graphql_data["description"]
    /\ frame.result.d["description"] = frame.graphql_data["description"]
    /\ "rating" \in DOMAIN frame.graphql_data
    /\ "rating" \notin DOMAIN frame.result.d
    /\ "reviewCount" \in DOMAIN frame.result.d

\* C12: stop_network_monitoring unregisters the two handlers: after a stop
\* that disabled the Network domain and returned True no handler is
\* registered, so that no event reaches a buffer, and at no time is a handler
\* registered more than once
C12_StopUnregisters ==
    /\ (/\ Returned("stop_network_monitoring")
        /\ ret = Bool(TRUE)
        /\ Step("Network.disable@142", TRUE) \in {trace[i] : i \in 1..Len(trace)})
           => (request_listeners = 0 /\ response_listeners = 0)
    /\ request_listeners <= 1
    /\ response_listeners <= 1

-----------------------------------------------------------------------------
(* The buffer lock: each handler in two steps, from entering the with block
   to leaving it, next to the caller's start, stop and clear *)

RequestHandler == "_network_request_handler"
ResponseHandler == "_network_response_handler"

Get1 == Str(<<"G", "E", "T">>)

\* the messages of RequestMessages, and a direct-shape message that holds
\* its method beside the request sub-object
DeliveredRequests ==
    RequestMessages \cup
    { Dict([requestId |-> R1, request |-> Dict([url |-> UrlApiGraphql]),
            method |-> Get1]) }

\* the messages of ResponseMessages, and a CDP envelope that holds its url
\* in params, with no response sub-object
DeliveredResponses ==
    ResponseMessages \cup
    { Dict([params |-> Dict([requestId |-> R2, url |-> UrlApiGraphql])]) }

\* an earlier event of this behaviour was dropped
Dropped == "dropped" \in DOMAIN delivery /\ delivery.dropped

\* the thread inside a handler: the message it was called with and the two
\* buffers as they were at the call
Handling(handler, message) ==
    [pc |-> handler, message |-> message,
     before |-> <<network_requests, network_responses>>,
     outcome |-> "pending", dropped |-> Dropped]

\* a handler whose exception is not caught
HandledUncaught(data) == IF data = Raise THEN "raised" ELSE "recorded"

\* how the handler call ends: the append was reached, or the exception of the
\* projection was caught by except Exception and logged
Handled(data) == IF data = Raise THEN "dropped" ELSE "recorded"

\* the thread back from a handler, or ended by the exception that left it
Left(data) ==
    [pc |-> IF Handled(data) = "raised" THEN "raised" ELSE "idle",
     handler |-> delivery.pc,
     outcome |-> Handled(data),
     dropped |-> delivery.dropped \/ data = Raise]

\* _network_request_handler, lines 30-33: the lock taken, the oldest record
\* evicted
RequestHandlerEnters ==
    \E message \in DeliveredRequests :
      /\ delivery.pc = "idle"
      /\ cdp_enabled /\ request_listeners > 0
      /\ network_lock = "free"
      /\ network_lock' = RequestHandler
      /\ network_requests' = Evict(network_requests)
      /\ delivery' = Handling(RequestHandler, message)
      /\ UNCHANGED <<network_monitoring, network_responses, browser,
                     pc, stack, ret, frame, ex, trace, calls, history>>

\* _network_request_handler, lines 35-63: the projection and the append;
\* leaving the with block, by its end or by an exception, releases the lock
RequestHandlerLeaves ==
    /\ delivery.pc = RequestHandler
    /\ LET request_data == RequestData(delivery.message)
       IN  /\ network_requests' = IF request_data = Raise THEN network_requests
                                   ELSE Append(network_requests, request_data)
           /\ delivery' = Left(request_data)
    /\ network_lock' = "free"
    /\ UNCHANGED <<network_monitoring, network_responses, browser,
                   pc, stack, ret, frame, ex, trace, calls, history>>

\* _network_response_handler, lines 67-70
ResponseHandlerEnters ==
    \E message \in DeliveredResponses :
      /\ delivery.pc = "idle"
      /\ cdp_enabled /\ response_listeners > 0
      /\ network_lock = "free"
      /\ network_lock' = ResponseHandler
      /\ network_responses' = Evict(network_responses)
      /\ delivery' = Handling(ResponseHandler, message)
      /\ UNCHANGED <<network_monitoring, network_requests, browser,
                     pc, stack, ret, frame, ex, trace, calls, history>>

\* _network_response_handler, lines 72-102
ResponseHandlerLeaves ==
    /\ delivery.pc = ResponseHandler
    /\ LET response_data == ResponseData(delivery.message)
       IN  /\ network_responses' = IF response_data = Raise THEN network_responses
                                    ELSE Append(network_responses, response_data)
           /\ delivery' = Left(response_data)
    /\ network_lock' = "free"
    /\ UNCHANGED <<network_monitoring, network_requests, browser,
                   pc, stack, ret, frame, ex, trace, calls, history>>

LockNext ==
    \/ RequestHandlerEnters
    \/ RequestHandlerLeaves
    \/ ResponseHandlerEnters
    \/ ResponseHandlerLeaves
    \/ BufferCallerInvokes
    \/ CallerClears
    \/ StartNetworkMonitoring
    \/ StopNetworkMonitoring

LockSpec == Init /\ [][LockNext]_vars

\* the projection of the message the thread holds
Projected ==
    IF delivery.pc = RequestHandler THEN RequestData(delivery.message)
    ELSE ResponseData(delivery.message)

\* a handler call ends in this step
HandlerEnds == delivery.pc \in {RequestHandler, ResponseHandler} /\ delivery'.pc # delivery.pc

\* C13: a handler call with a message whose projection raises ends without
\* an exception leaving the handler, with the lock released, the monitoring
\* flag as it was and nothing appended to either buffer; and a call with a
\* well-formed message appends its record, whether or not an earlier event
\* was dropped
C13_MalformedDropped ==
    [][HandlerEnds =>
         /\ delivery'.pc = "idle"
         /\ delivery'.outcome # "raised"
         /\ network_lock' = "free"
         /\ network_monitoring' = network_monitoring
         /\ IF Projected = Raise
            THEN /\ network_requests' = network_requests
                 /\ network_responses' = network_responses
            ELSE IF delivery.pc = RequestHandler
            THEN /\ network_requests' = Append(network_requests, Projected)
                 /\ network_responses' = network_responses
            ELSE /\ network_responses' = Append(network_responses, Projected)
                 /\ network_requests' = network_requests]_vars

\* a response event was dropped while monitoring, and the event after it has
\* been recorded
C13_Witness ==
    /\ delivery.pc = "idle"
    /\ Dropped
    /\ delivery.outcome = "recorded"
    /\ network_monitoring
    /\ network_lock = "free"
    /\ delivery.handler = ResponseHandler
    /\ network_responses # <<>>

\* C14: a handler call that drops its event leaves both buffers as they were
\* when the handler was called, whatever their fill: no record is evicted
\* for an event that is not recorded
C14_DropLeavesBuffers ==
    [][(HandlerEnds /\ Projected = Raise) =>
         /\ network_requests' = delivery.before[1]
         /\ network_responses' = delivery.before[2]]_vars

\* the field k as C15 states it: from the sub-object when present there,
\* otherwise the field of the same name beside the sub-object
PerField(src, sub, k, default) ==
    LET s == Get(src, sub, None)
    IN  IF IsDict(s) /\ k \in DOMAIN s.d THEN s.d[k] ELSE Get(src, k, default)

\* the part of a message that holds the fields: params of a CDP envelope, or
\* the message itself
Fields(message) ==
    IF "params" \in DOMAIN message.d THEN message.d["params"] ELSE message

\* C15: the record appended for a message of either shape holds, for each of
\* url, method, headers, postData (requests) and url, status, statusText,
\* headers, mimeType (responses), the sub-object's field when it is present
\* there, otherwise the top-level field of the same name, and None (an empty
\* mapping for headers) when it is in neither place
C15_PerFieldFallback ==
    [][(HandlerEnds /\ Projected # Raise) =>
         LET src == Fields(delivery.message)
         IN  IF delivery.pc = RequestHandler
             THEN LET r == Last(network_requests')
                  IN  /\ r.d["url"] = PerField(src, "request", "url", None)
                      /\ r.d["method"] = PerField(src, "request", "method", None)
                      /\ r.d["headers"] = PerField(src, "request", "headers", EmptyDict)
                      /\ r.d["postData"] = PerField(src, "request", "postData", None)
             ELSE LET r == Last(network_responses')
                  IN  /\ r.d["url"] = PerField(src, "response", "url", None)
                      /\ r.d["status"] = PerField(src, "response", "status", None)
                      /\ r.d["statusText"] = PerField(src, "response", "statusText", None)
                      /\ r.d["headers"] = PerField(src, "response", "headers", EmptyDict)
                      /\ r.d["mimeType"] = PerField(src, "response", "mimeType", None)]_vars

-----------------------------------------------------------------------------
(* The GraphQL extractor alone: _extract_graphql_data called, while
   monitoring, with a sequence of captured records of the requests b0 .. b9 *)

\* records in one call of the extractor
MaxRecords == 2

\* the record captured for the response to a request
CapturedRecord(request_id) ==
    ResponseData(Dict([params |-> Dict([requestId |-> request_id,
                                        response |-> Dict([url |-> UrlApiGraphql])])]))

RecordSequences ==
    UNION {{[i \in 1..n |-> CapturedRecord(ids[i])] : ids \in [1..n -> BodyIds]} :
             n \in 0..MaxRecords}

ExtractorInit ==
    /\ network_monitoring = TRUE
    /\ network_requests = <<>>
    /\ network_responses = <<>>
    /\ network_lock = "free"
    /\ driver = TRUE
    /\ cdp_enabled = TRUE
    /\ request_listeners = 1
    /\ response_listeners = 1
    /\ pc = "_extract_graphql_data"
    /\ stack = <<"idle">>
    /\ ret = None
    /\ frame = NoFrame
    /\ ex \in {Extractor(responses) : responses \in RecordSequences}
    /\ trace = <<Step("_extract_graphql_data", TRUE)>>
    /\ calls = 1
    /\ delivery = Idle
    /\ recorded_requests = NoneRecorded
    /\ recorded_responses = NoneRecorded

ExtractorNext == ExtractGraphqlData

ExtractorSpec == ExtractorInit /\ [][ExtractorNext]_vars

\* the parsed envelope of the body held for a record's request
Envelope(response) == BodyOf(response.d["requestId"]).json

\* the records the extractor has read so far
Read == {i \in 1..Len(ex.records) : i < ex.i}

\* the object at the first of data.api, data.getApi, data.apiDetails,
\* data.marketplace.api that holds an object, None when none does
FirstObject(data) ==
    LET marketplace == Get(data, "marketplace", None)
        paths == <<Get(data, "api", None), Get(data, "getApi", None),
                   Get(data, "apiDetails", None),
                   IF IsDict(marketplace) THEN Get(marketplace, "api", None) ELSE None>>
        objects == {i \in 1..4 : IsDict(paths[i])}
    IN  IF objects = {} THEN None
        ELSE paths[CHOOSE i \in objects : \A j \in objects : i <= j]

\* C16: for every envelope read whose data is a mapping, the API-info object
\* is the object at the first of the four paths at which an object is
\* present, a path that holds null being passed over
C16_FirstPresentObject ==
    \A i \in Read :
      LET envelope == Envelope(ex.records[i])
      IN  (IsDict(envelope) /\ IsDict(Get(envelope, "data", None)))
              => ApiInfo(envelope.d["data"]) = FirstObject(envelope.d["data"])

\* the API-info object the code finds in a record's envelope, None when it
\* finds none or the lookup raises
Found(response) ==
    LET envelope == Envelope(response)
        data == Get(envelope, "data", None)
        api_info == IF IsDict(envelope) /\ "data" \in DOMAIN envelope.d
                    THEN ApiInfo(data) ELSE None
    IN  IF api_info = Raise THEN None ELSE api_info

\* the first record of the call for which Usable holds of its API-info
\* object, 0 when there is none
FirstMatch(Usable(_)) ==
    LET matches == {i \in 1..Len(ex.records) : Usable(Found(ex.records[i]))}
    IN  IF matches = {} THEN 0
        ELSE CHOOSE i \in matches : \A j \in matches : i <= j

NonNull(api_info) == api_info # None

\* the extractor has returned
Extracted == pc = "idle" /\ trace[1].op = "_extract_graphql_data"

\* get_response_body calls in the history
BodyCalls == Cardinality({i \in 1..Len(trace) : trace[i].op = "get_response_body"})

\* for the first record with a usable API-info object: no later record was
\* read, no body was fetched after its own, and the name and description
\* of the result are that object's
FirstMatchWins(Usable(_)) ==
    LET k == FirstMatch(Usable)
    IN  (Extracted /\ k > 0) =>
            /\ ex.i <= k + 1
            /\ BodyCalls <= k
            /\ IsDict(ret)
            /\ \A f \in {"name", "description"} :
                 f \in DOMAIN ret.d =>
                     /\ ex.i = k + 1
                     /\ ret.d[f] = Get(Found(ex.records[k]), f, None)

\* C17 as stated: first-match-wins across records, the match being the first
\* record whose envelope yields a non-null API-info object
C17_FirstNonNullWins == FirstMatchWins(NonNull)

\* C17: first-match-wins across records, the match being the first record
\* whose envelope yields a truthy (non-null, non-empty) API-info object: the
\* records are read in order, the fields of the result come from that record,
\* and after it no body is fetched and no record read
C17_FirstTruthyWins == FirstMatchWins(Truthy)

\* both records hold a usable API-info object: the first gave the result
\* and the second was not read
C17_Witness ==
    /\ Extracted
    /\ Len(ex.records) = 2
    /\ FirstMatch(Truthy) = 1
    /\ Truthy(Found(ex.records[2]))
    /\ Found(ex.records[2]) # Found(ex.records[1])
    /\ ex.i = 2
    /\ BodyCalls = 1
    /\ ret.d["name"] = Found(ex.records[1]).d["name"]

\* the value C18 states for a field taken from alternatives, in priority
\* order, the first one present and non-null; None when there is none.
\* wrapped says which alternatives are stored as {tiers: value}
FirstNonNull(api_info, alternatives, wrapped) ==
    LET present == {i \in 1..Len(alternatives) :
                      Get(api_info, alternatives[i], None) # None}
    IN  IF present = {} THEN None
        ELSE LET i == CHOOSE i \in present : \A j \in present : i <= j
                 value == api_info.d[alternatives[i]]
             IN  IF alternatives[i] \in wrapped THEN Dict([tiers |-> value])
                 ELSE value

\* C18: when the extractor has taken its fields from a record, the pricing
\* of the result is the first present and non-null one of pricing,
\* {tiers: pricingTiers}, {tiers: plans}, its endpoints the first present and
\* non-null one of endpoints, methods, operations, and a field with no such
\* alternative is not stored
C18_NonNullAlternatives ==
    LET k == FirstMatch(Truthy)
    IN  (Extracted /\ k > 0 /\ ex.i = k + 1 /\ IsDict(Found(ex.records[k]))) =>
            LET api_info == Found(ex.records[k])
                pricing == FirstNonNull(api_info, <<"pricing", "pricingTiers", "plans">>,
                                        {"pricingTiers", "plans"})
                endpoints == FirstNonNull(api_info, <<"endpoints", "methods", "operations">>,
                                          {})
            IN  /\ ("pricing" \in DOMAIN ret.d) = (pricing # None)
                /\ Get(ret, "pricing", None) = pricing
                /\ ("endpoints" \in DOMAIN ret.d) = (endpoints # None)
                /\ Get(ret, "endpoints", None) = endpoints

\* a record whose body yields fields: its envelope parses, a usable API-info
\* mapping is found in it, and its rating and reviewCount are numbers
WellFormed(response) ==
    /\ IsDict(Found(response)) /\ Truthy(Found(response))
    /\ GraphqlFields(<<>>, Found(response)).next = "break"

\* C19: a malformed record is skipped and scanning continues: when the
\* sequence holds a well-formed record, the extractor returns the fields of
\* the first of them, whatever the records before it are
C19_MalformedSkipped ==
    LET matches == {i \in 1..Len(ex.records) : WellFormed(ex.records[i])}
    IN  (Extracted /\ matches # {}) =>
            LET k == CHOOSE i \in matches : \A j \in matches : i <= j
            IN  /\ ex.i = k + 1
                /\ ret = Dict(GraphqlFields(<<>>, Found(ex.records[k])).data)

\* a handler has been called and has not yet projected its raw message
Normalizing == delivery.pc \in {RequestHandler, ResponseHandler}

\* C20: the lock is held by one thread at a time, and only for the evict,
\* append, clear or copy: the coroutine, whose steps are its driver calls
\* and its parsing of bodies, holds it across none of them, a handler that
\* holds it is the one the event-delivery thread runs, and it is not held
\* while that handler still has its raw message to normalize
C20_LockScope ==
    /\ network_lock \in {"free", RequestHandler, ResponseHandler}
    /\ (network_lock # "free" => delivery.pc = network_lock)
    /\ ~(network_lock # "free" /\ Normalizing)

\* the blocking calls of the driver, by call site
DriverCalls ==
    {"Network.enable@114", "add_cdp_listener@119", "add_cdp_listener@122",
     "Network.disable@142", "Network.getResponseBody@169", "driver.get@202",
     "execute_script@237"}

\* how the call site makes its call: handed to a worker with
\* await loop.run_in_executor(None, ...), the coroutine suspended until it is
\* done, or made by the coroutine itself, which holds the event loop until
\* the driver returns
Dispatch(op) ==
    CASE op \in {"Network.enable@114", "add_cdp_listener@119", "add_cdp_listener@122",
                 "Network.disable@142", "Network.getResponseBody@169"} -> "worker"
      [] op \in {"driver.get@202", "execute_script@237"} -> "coroutine"

\* C21: every blocking driver call the coroutine has made (Network.enable,
\* Network.disable, Network.getResponseBody, the listener registrations, the
\* navigation, the interaction script) was dispatched to a worker, the
\* coroutine yielding while it was in flight
C21_DriverCallsDispatched ==
    \A i \in 1..Len(trace) :
        trace[i].op \in DriverCalls => Dispatch(trace[i].op) = "worker"

\* C22: whenever assess_api_enhanced or close has returned to the caller, by
\* whatever path and whichever driver calls failed on the way, a failing
\* Network.disable included, the monitoring flag is not set
C22_ReturnsStopped ==
    ((Returned("assess_api_enhanced") \/ Returned("close")) /\ ret # Raise)
        => ~network_monitoring
====
